---- MODULE Spec2Model ----
\* Verification model of aklp-cli: the turn pipeline (cli.py
\* process_user_request / single_shot_mode) with the command guard and the
\* bounded executor (executor.py).
\*
\* Text is modelled as a sequence of atoms.  A command is a sequence of single
\* characters, so that strip(), startswith() and slicing are computed as
\* Python computes them.  A fixed literal of the source (a message prefix) is
\* one atom; the Korean literals of the source are written in English.
\* An Optional[...] value of the source is a record: None is [some |-> FALSE]
\* and a present value v is [some |-> TRUE, val |-> v].
EXTENDS Integers, Sequences, FiniteSets, TLC

VARIABLES pc, turn, agent_response, kubectl_result, execution_log, calls,
          spawned, raised, exit_code,
          unit, history_file, current_session, appended, faulted, started,
          user_input, savers, loaded

vars == <<pc, turn, agent_response, kubectl_result, execution_log, calls,
          spawned, raised, exit_code,
          unit, history_file, current_session, appended, faulted, started,
          user_input, savers, loaded>>

----------------------------------------------------------------------------
\* Optional values

None == [some |-> FALSE]

Some(v) == [some |-> TRUE, val |-> v]

\* Python truthiness of an Optional[str]: None and "" are falsy
Truthy(o) == o.some /\ o.val # <<>>

\* Python `o or d` on an Optional[str]
OrElse(o, d) == IF Truthy(o) THEN o.val ELSE d

----------------------------------------------------------------------------
\* Text helpers (str.strip, str.startswith, slicing)

Whitespace == {" ", "\t", "\n", "\r"}

RECURSIVE LStrip(_)
LStrip(s) == IF s # <<>> /\ Head(s) \in Whitespace THEN LStrip(Tail(s)) ELSE s

RECURSIVE RStrip(_)
RStrip(s) ==
    IF s # <<>> /\ s[Len(s)] \in Whitespace
    THEN RStrip(SubSeq(s, 1, Len(s) - 1))
    ELSE s

Strip(s) == RStrip(LStrip(s))

StartsWith(s, p) == Len(s) >= Len(p) /\ SubSeq(s, 1, Len(p)) = p

\* s[:n]
Take(s, n) == SubSeq(s, 1, IF Len(s) < n THEN Len(s) ELSE n)

KubectlPrefix == <<"k", "u", "b", "e", "c", "t", "l", " ">>

PreviewLen == 50

NotKubectlMsg == "not a kubectl command: "

----------------------------------------------------------------------------
\* executor.py

\* validate_kubectl_command with the prefix test lacking its trailing space
ValidateOk_NoSpace(command) ==
    StartsWith(Strip(command), SubSeq(KubectlPrefix, 1, Len(KubectlPrefix) - 1))

\* validate_kubectl_command: TRUE when it returns, FALSE when it raises
\* InvalidCommandError
ValidateOk(command) == StartsWith(Strip(command), KubectlPrefix)

\* the message truncating from PreviewLen characters on, not from above it
InvalidCommandMessage_TruncateAtLimit(command) ==
    LET stripped == Strip(command) IN
    IF Len(stripped) >= PreviewLen
    THEN <<NotKubectlMsg>> \o Take(stripped, PreviewLen) \o <<".", ".", ".">>
    ELSE <<NotKubectlMsg>> \o stripped

\* str(e) of the InvalidCommandError raised by validate_kubectl_command
InvalidCommandMessage(command) ==
    LET stripped == Strip(command) IN
    IF Len(stripped) > PreviewLen
    THEN <<NotKubectlMsg>> \o Take(stripped, PreviewLen) \o <<".", ".", ".">>
    ELSE <<NotKubectlMsg>> \o stripped

\* The programs the platform shell starts for a command line handed to
\* subprocess.run(command, shell=True): the first word of every simple command,
\* simple commands being separated by ; | & or a newline.
ShellSeparators == {";", "|", "&", "\n"}

RECURSIVE FirstWord(_)
FirstWord(s) ==
    IF s = <<>> \/ Head(s) \in Whitespace \/ Head(s) \in ShellSeparators
    THEN <<>>
    ELSE <<Head(s)>> \o FirstWord(Tail(s))

RECURSIVE AfterSeparator(_)
AfterSeparator(s) ==
    IF s = <<>> THEN <<>>
    ELSE IF Head(s) \in ShellSeparators THEN Tail(s)
    ELSE AfterSeparator(Tail(s))

RECURSIVE ShellPrograms(_)
ShellPrograms(command) ==
    LET rest == LStrip(command) IN
    IF rest = <<>> THEN {}
    ELSE (IF FirstWord(rest) = <<>> THEN {} ELSE {FirstWord(rest)})
         \cup ShellPrograms(AfterSeparator(rest))

\* the `timeout` default of run_kubectl
DefaultTimeout == 60

\* The ways subprocess.run can end.  "completed" carries the exit status and
\* the captured streams; "launch_failure" is any Exception of subprocess.run
\* other than TimeoutExpired; "interrupt" is a KeyboardInterrupt while waiting.
ExitStatuses == {0, 1, 2}

Stdouts == {<<>>, <<"NAME ...">>}

Stderrs == {<<>>, <<"error: x">>}

SubprocessOutcomes ==
    [kind : {"completed"}, returncode : ExitStatuses,
     stdout : Stdouts, stderr : Stderrs]
    \cup [kind : {"timeout"}]
    \cup [kind : {"launch_failure"}, text : {<<"Permission denied">>}]
    \cup [kind : {"interrupt"}]

ExecutionResult(success, stdout, stderr, return_code) ==
    [success |-> success, stdout |-> stdout, stderr |-> stderr,
     return_code |-> return_code]

\* run_kubectl with the timeout message naming the default timeout instead of
\* the timeout it was called with
run_kubectl_DefaultTimeoutNamed(command, timeout, o) ==
    IF o.kind = "completed"
    THEN [returns |-> TRUE,
          result |-> ExecutionResult(o.returncode = 0, o.stdout, o.stderr,
                                     o.returncode)]
    ELSE IF o.kind = "timeout"
    THEN [returns |-> TRUE,
          result |-> ExecutionResult(FALSE, <<>>,
                        <<"command timed out (", ToString(DefaultTimeout), "s)">>,
                        -1)]
    ELSE IF o.kind = "launch_failure"
    THEN [returns |-> TRUE,
          result |-> ExecutionResult(FALSE, <<>>, o.text, -1)]
    ELSE [returns |-> FALSE,
          exc |-> [class |-> "KeyboardInterrupt", msg |-> <<>>]]

\* run_kubectl: what it gives its caller for an outcome of subprocess.run;
\* returns is FALSE when the exception leaves run_kubectl
run_kubectl(command, timeout, o) ==
    IF o.kind = "completed"
    THEN [returns |-> TRUE,
          result |-> ExecutionResult(o.returncode = 0, o.stdout, o.stderr,
                                     o.returncode)]
    ELSE IF o.kind = "timeout"
    THEN [returns |-> TRUE,
          result |-> ExecutionResult(FALSE, <<>>,
                        <<"command timed out (", ToString(timeout), "s)">>,
                        -1)]
    ELSE IF o.kind = "launch_failure"
    THEN [returns |-> TRUE,
          result |-> ExecutionResult(FALSE, <<>>, o.text, -1)]
    ELSE [returns |-> FALSE,
          exc |-> [class |-> "KeyboardInterrupt", msg |-> <<>>]]

\* the shell starts the programs of the command line unless the shell itself
\* could not be launched
SpawnedBy(command, o) ==
    IF o.kind = "launch_failure" THEN {} ELSE ShellPrograms(command)

\* What the machine does with the command line.  subprocess.run is called with
\* shell=True, so the process it launches is the platform shell and the shell
\* runs the line: "exits" is the line running to an exit status,
\* "executable_missing" and "permission_denied" are the shell failing to start
\* the program the line names, "shell_unavailable" is the shell itself failing
\* to start, "timeout" is the line outliving the timeout and "interrupt" is
\* Ctrl+C arriving while subprocess.run waits.
LaunchFailures == {"executable_missing", "permission_denied", "shell_unavailable"}

ShellConditions ==
    [kind : {"exits"}, returncode : ExitStatuses,
     stdout : Stdouts, stderr : Stderrs]
    \cup [kind : LaunchFailures \cup {"timeout", "interrupt"}]

\* subprocess.run(command, shell=True, capture_output=True, text=True,
\* timeout=timeout) under a condition: the shell reports a program it cannot
\* start on its standard error and ends with status 127 (not found) or 126
\* (not executable); only a shell that cannot be started is an OSError.
subprocess_run(cond) ==
    CASE cond.kind = "exits" ->
           [kind |-> "completed", returncode |-> cond.returncode,
            stdout |-> cond.stdout, stderr |-> cond.stderr]
      [] cond.kind = "executable_missing" ->
           [kind |-> "completed", returncode |-> 127, stdout |-> <<>>,
            stderr |-> <<"/bin/sh: kubectl: not found">>]
      [] cond.kind = "permission_denied" ->
           [kind |-> "completed", returncode |-> 126, stdout |-> <<>>,
            stderr |-> <<"/bin/sh: kubectl: Permission denied">>]
      [] cond.kind = "shell_unavailable" ->
           [kind |-> "launch_failure", text |-> <<"Permission denied">>]
      [] cond.kind = "timeout" -> [kind |-> "timeout"]
      [] cond.kind = "interrupt" -> [kind |-> "interrupt"]

\* validate_kubectl_command testing the text as given, without command.strip()
validate_kubectl_command_NoStrip(command) ==
    IF StartsWith(command, KubectlPrefix)
    THEN [returns |-> TRUE]
    ELSE [returns |-> FALSE,
          exc |-> [class |-> "InvalidCommandError",
                   msg |-> InvalidCommandMessage(command)]]

\* validate_kubectl_command: it returns None or raises InvalidCommandError
validate_kubectl_command(command) ==
    IF ValidateOk(command)
    THEN [returns |-> TRUE]
    ELSE [returns |-> FALSE,
          exc |-> [class |-> "InvalidCommandError",
                   msg |-> InvalidCommandMessage(command)]]

----------------------------------------------------------------------------
\* services/agent.py, services/note.py, services/task.py

\* The failures of one HTTP call that the service clients turn into their own
\* error class: httpx.TimeoutException, httpx.HTTPStatusError,
\* httpx.RequestError, and any other Exception (an unparseable or invalid
\* response body).
TransportFailures == {"timeout", "http_status", "request_error", "bad_response"}

\* str(e) of the <Service>ServiceError raised for a transport failure
ServiceErrorMessage(service, failure) ==
    IF failure = "timeout"
    THEN <<service, " service timed out">>
    ELSE IF failure = "http_status"
    THEN <<service, " service error (HTTP ", "500", "): ", "body">>
    ELSE IF failure = "request_error"
    THEN <<service, " service connection failed: ", "url", "\nerror: ", "refused">>
    ELSE <<"unexpected error: ", "invalid response">>

\* An exception is a record of its class and its str().
Exc(class, msg) == [class |-> class, msg |-> msg]

\* KeyboardInterrupt and asyncio.CancelledError derive from BaseException only;
\* every other class of the model derives from Exception.
BaseOnlyClasses == {"KeyboardInterrupt", "CancelledError"}

\* A user interrupt while the coroutine is suspended in an await: it reaches
\* the coroutine as KeyboardInterrupt or, when asyncio.run cancels the task,
\* as CancelledError.
AwaitInterrupts == {Exc("KeyboardInterrupt", <<>>), Exc("CancelledError", <<>>)}

\* execute_command: the exceptions that leave it
execute_command_raises ==
    {Exc("AgentServiceError", ServiceErrorMessage("Agent", f)) :
        f \in TransportFailures}
    \cup AwaitInterrupts

\* create_note: NoteCreate(...) and NoteResponse.model_validate(...) stand
\* outside _make_request, so a pydantic ValidationError leaves as it is
create_note_raises ==
    {Exc("NoteServiceError", ServiceErrorMessage("Note", f)) :
        f \in TransportFailures}
    \cup {Exc("ValidationError", <<"validation error">>)}
    \cup AwaitInterrupts

\* create_task: likewise with TaskCreate / TaskResponse
create_task_raises ==
    {Exc("TaskServiceError", ServiceErrorMessage("Task", f)) :
        f \in TransportFailures}
    \cup {Exc("ValidationError", <<"validation error">>)}
    \cup AwaitInterrupts

\* confirm_execution (rich Confirm.ask): Ctrl+C and end of input
confirm_execution_raises ==
    {Exc("KeyboardInterrupt", <<>>), Exc("EOFError", <<>>)}

----------------------------------------------------------------------------
\* Inputs

Prompts == {<<"list pods">>}

Commands ==
    { <<"k","u","b","e","c","t","l"," ","g","e","t">>,
      <<" ","k","u","b","e","c","t","l"," ","g","e","t","\n">>,
      <<"k","u","b","e","c","t","l"," ","g","e","t",";","r","m"," ","x">>,
      <<"k","u","b","e","c","t","l">>,
      <<"r","m"," ","-","r","f"," ","/">>,
      <<" ">>,
      <<>> }

CommandOpts == {None} \cup {Some(c) : c \in Commands}

MessageOpts == {None, Some(<<>>), Some(<<"ambiguous request">>)}

TitleOpts == {None, Some(<<"List pods">>)}

ReasonOpts == {None, Some(<<"shows all pods">>)}

\* models.py AgentResponse
AgentResponses ==
    [success : BOOLEAN, command : CommandOpts, reason : ReasonOpts,
     title : TitleOpts, error_message : MessageOpts]

\* models.py ConversationTurn(user_prompt=prompt); timestamp defaults to
\* datetime.now(), for which the count of runs stands; llm_elapsed_time is
\* the attribute cli.py assigns and reads back on the turn
ConversationTurn(prompt) ==
    [timestamp |-> started, user_prompt |-> prompt, executed |-> FALSE,
     note_response |-> None, task_response |-> None, error |-> None,
     llm_elapsed_time |-> None]

----------------------------------------------------------------------------
\* cli.py process_user_request

\* the except clauses with `except AgentServiceError` forgetting turn.error
TurnAfterExcept_AgentErrorDropped(t, e) ==
    IF e.class = "AgentServiceError"
    THEN t
    ELSE IF e.class = "NoteServiceError"
    THEN [t EXCEPT !.error = Some(<<"Note service error: ">> \o e.msg)]
    ELSE IF e.class = "TaskServiceError"
    THEN [t EXCEPT !.error = Some(<<"Task service error: ">> \o e.msg)]
    ELSE IF e.class = "KeyboardInterrupt"
    THEN [t EXCEPT !.error = Some(<<"user interrupt">>), !.executed = FALSE]
    ELSE [t EXCEPT !.error = Some(<<"unexpected error: ">> \o e.msg)]

\* the `except` clauses of process_user_request, in their order
Handled(e) ==
    \/ e.class \in {"AgentServiceError", "NoteServiceError",
                    "TaskServiceError", "KeyboardInterrupt"}
    \/ e.class \notin BaseOnlyClasses

TurnAfterExcept(t, e) ==
    IF e.class = "AgentServiceError"
    THEN [t EXCEPT !.error = Some(<<"Agent service error: ">> \o e.msg)]
    ELSE IF e.class = "NoteServiceError"
    THEN [t EXCEPT !.error = Some(<<"Note service error: ">> \o e.msg)]
    ELSE IF e.class = "TaskServiceError"
    THEN [t EXCEPT !.error = Some(<<"Task service error: ">> \o e.msg)]
    ELSE IF e.class = "KeyboardInterrupt"
    THEN [t EXCEPT !.error = Some(<<"user interrupt">>), !.executed = FALSE]
    ELSE [t EXCEPT !.error = Some(<<"unexpected error: ">> \o e.msg)]

\* exception e reaches the except clauses while the turn is t: the function
\* returns the turn, or the exception leaves process_user_request
Raise(t, e) ==
    /\ raised' = Append(raised, e.class)
    /\ IF Handled(e)
       THEN turn' = TurnAfterExcept(t, e) /\ pc' = "returned"
       ELSE turn' = t /\ pc' = "propagated"

\* One finished call of the turn: the function, its argument, and how it
\* ended ("ok", the answer of the prompt, or the class of the exception)
Call(fn, arg, out) == [fn |-> fn, arg |-> arg, out |-> out]

\* str() of an Optional[str] inside an f-string
Repr(o) == IF o.some THEN o.val ELSE <<"None">>

\* the execution_log built from the ExecutionResult
ExecutionLog(r) ==
    (IF r.stdout # <<>>
     THEN <<"\n\n## result\n">> \o r.stdout \o <<"\n">> ELSE <<>>)
    \o (IF r.stderr # <<>>
        THEN <<"\n\n## error output\n">> \o r.stderr \o <<"\n">>
        ELSE <<>>)
    \o <<"\n\n**Exit Code:** ", ToString(r.return_code)>>

NoteContent(resp, log) ==
    <<"## command\n">> \o Repr(resp.command)
    \o <<"\n\n## description\n">> \o OrElse(resp.reason, <<>>) \o log

NoteArgs(resp, log) ==
    [title |-> OrElse(resp.title, <<"Agent result">>),
     content |-> NoteContent(resp, log)]

TaskArgs(resp) ==
    [title |-> OrElse(resp.title, <<"execution task">>),
     description |-> <<"command: ">> \o Repr(resp.command) \o <<"\n\n">>
                     \o OrElse(resp.reason, <<>>)]

\* turn = ConversationTurn(user_prompt=prompt); await execute_command(prompt)
ProcessUserRequest(prompt) ==
    /\ pc = "start"
    /\ turn' = ConversationTurn(prompt)
    /\ pc' = "reasoning"
    /\ UNCHANGED <<unit, history_file, current_session, appended, faulted, started,
                   user_input, savers, loaded>>
    /\ UNCHANGED <<agent_response, kubectl_result, execution_log, calls,
                   spawned, raised, exit_code>>

\* execute_command returns a response: elapsed time, display, success check
ExecuteCommandReturns(resp) ==
    /\ pc = "reasoning"
    /\ agent_response' = Some(resp)
    /\ LET t == [turn EXCEPT !.llm_elapsed_time = Some(0)] IN
       IF ~resp.success
       THEN /\ turn' = [t EXCEPT !.error = resp.error_message,
                                 !.executed = FALSE]
            /\ pc' = "returned"
       ELSE /\ turn' = t
            /\ pc' = "confirm"
    /\ calls' = Append(calls, Call("execute_command", turn.user_prompt, "ok"))
    /\ UNCHANGED <<unit, history_file, current_session, appended, faulted, started,
                   user_input, savers, loaded>>
    /\ UNCHANGED <<kubectl_result, execution_log, spawned, raised, exit_code>>

ExecuteCommandRaises(e) ==
    /\ pc = "reasoning"
    /\ calls' = Append(calls,
                   Call("execute_command", turn.user_prompt, e.class))
    /\ Raise(turn, e)
    /\ UNCHANGED <<unit, history_file, current_session, appended, faulted, started,
                   user_input, savers, loaded>>
    /\ UNCHANGED <<agent_response, kubectl_result, execution_log, spawned,
                   exit_code>>

\* the confirmation step with the `return turn` of the declined branch missing
ConfirmExecution_NoReturn(answer) ==
    /\ pc = "confirm"
    /\ calls' = Append(calls, Call("confirm_execution", <<>>,
                                   IF answer THEN "yes" ELSE "no"))
    /\ turn' = [turn EXCEPT !.executed = answer]
    /\ pc' = IF Truthy(agent_response.val.command)
             THEN "validate" ELSE "persist_note"
    /\ UNCHANGED <<unit, history_file, current_session, appended, faulted, started,
                   user_input, savers, loaded>>
    /\ UNCHANGED <<agent_response, kubectl_result, execution_log, spawned,
                   raised, exit_code>>

\* confirm_execution() answers; on yes `turn.executed = True` and the
\* `if agent_response.command:` test
ConfirmExecution(answer) ==
    /\ pc = "confirm"
    /\ calls' = Append(calls, Call("confirm_execution", <<>>,
                                   IF answer THEN "yes" ELSE "no"))
    /\ IF ~answer
       THEN /\ turn' = [turn EXCEPT !.executed = FALSE]
            /\ pc' = "returned"
       ELSE /\ turn' = [turn EXCEPT !.executed = TRUE]
            /\ pc' = IF Truthy(agent_response.val.command)
                     THEN "validate" ELSE "persist_note"
    /\ UNCHANGED <<unit, history_file, current_session, appended, faulted, started,
                   user_input, savers, loaded>>
    /\ UNCHANGED <<agent_response, kubectl_result, execution_log, spawned,
                   raised, exit_code>>

ConfirmExecutionRaises(e) ==
    /\ pc = "confirm"
    /\ calls' = Append(calls, Call("confirm_execution", <<>>, e.class))
    /\ Raise(turn, e)
    /\ UNCHANGED <<unit, history_file, current_session, appended, faulted, started,
                   user_input, savers, loaded>>
    /\ UNCHANGED <<agent_response, kubectl_result, execution_log, spawned,
                   exit_code>>

\* the guard step with the `return turn` of `except InvalidCommandError`
\* missing, so that a rejected command falls through to the persistence stage
ValidateCommand_NoReturn ==
    /\ pc = "validate"
    /\ LET command == agent_response.val.command.val IN
       /\ calls' = Append(calls,
                      Call("validate_kubectl_command", command,
                           IF ValidateOk(command) THEN "ok"
                           ELSE "InvalidCommandError"))
       /\ IF ValidateOk(command)
          THEN /\ pc' = "run"
               /\ UNCHANGED <<turn, raised>>
          ELSE /\ turn' = [turn EXCEPT
                             !.error = Some(InvalidCommandMessage(command))]
               /\ raised' = Append(raised, "InvalidCommandError")
               /\ pc' = "persist_note"
    /\ UNCHANGED <<unit, history_file, current_session, appended, faulted, started,
                   user_input, savers, loaded>>
    /\ UNCHANGED <<agent_response, kubectl_result, execution_log, spawned,
                   exit_code>>

\* validate_kubectl_command(agent_response.command) and its
\* `except InvalidCommandError`
ValidateCommand ==
    /\ pc = "validate"
    /\ LET command == agent_response.val.command.val IN
       /\ calls' = Append(calls,
                      Call("validate_kubectl_command", command,
                           IF ValidateOk(command) THEN "ok"
                           ELSE "InvalidCommandError"))
       /\ IF ValidateOk(command)
          THEN /\ pc' = "run"
               /\ UNCHANGED <<turn, raised>>
          ELSE /\ turn' = [turn EXCEPT
                             !.error = Some(InvalidCommandMessage(command))]
               /\ raised' = Append(raised, "InvalidCommandError")
               /\ pc' = "returned"
    /\ UNCHANGED <<unit, history_file, current_session, appended, faulted, started,
                   user_input, savers, loaded>>
    /\ UNCHANGED <<agent_response, kubectl_result, execution_log, spawned,
                   exit_code>>

\* kubectl_result = run_kubectl(agent_response.command), display, and the
\* execution log
RunKubectl(o) ==
    /\ pc = "run"
    /\ LET command == agent_response.val.command.val
           r == run_kubectl(command, DefaultTimeout, o) IN
       /\ calls' = Append(calls,
                      Call("run_kubectl", command,
                           IF r.returns THEN "ok" ELSE r.exc.class))
       /\ spawned' = spawned \cup SpawnedBy(command, o)
       /\ IF r.returns
          THEN /\ kubectl_result' = Some(r.result)
               /\ execution_log' = ExecutionLog(r.result)
               /\ pc' = "persist_note"
               /\ UNCHANGED <<turn, raised>>
          ELSE /\ Raise(turn, r.exc)
               /\ UNCHANGED <<kubectl_result, execution_log>>
    /\ UNCHANGED <<unit, history_file, current_session, appended, faulted, started,
                   user_input, savers, loaded>>
    /\ UNCHANGED <<agent_response, exit_code>>

\* note creation with the assignment `turn.note_response = note_response`
\* missing
CreateNoteReturns_NotRecorded ==
    /\ pc = "persist_note"
    /\ calls' = Append(calls,
                   Call("create_note",
                        NoteArgs(agent_response.val, execution_log), "ok"))
    /\ pc' = "persist_task"
    /\ UNCHANGED <<unit, history_file, current_session, appended, faulted, started,
                   user_input, savers, loaded>>
    /\ UNCHANGED <<turn, agent_response, kubectl_result, execution_log,
                   spawned, raised, exit_code>>

\* note_response = await create_note(...); turn.note_response = note_response
CreateNoteReturns ==
    /\ pc = "persist_note"
    /\ LET args == NoteArgs(agent_response.val, execution_log) IN
       /\ calls' = Append(calls, Call("create_note", args, "ok"))
       /\ turn' = [turn EXCEPT !.note_response =
                      Some([id |-> "note-1", title |-> args.title,
                            content |-> args.content])]
    /\ pc' = "persist_task"
    /\ UNCHANGED <<unit, history_file, current_session, appended, faulted, started,
                   user_input, savers, loaded>>
    /\ UNCHANGED <<agent_response, kubectl_result, execution_log, spawned,
                   raised, exit_code>>

CreateNoteRaises(e) ==
    /\ pc = "persist_note"
    /\ calls' = Append(calls,
                   Call("create_note",
                        NoteArgs(agent_response.val, execution_log), e.class))
    /\ Raise(turn, e)
    /\ UNCHANGED <<unit, history_file, current_session, appended, faulted, started,
                   user_input, savers, loaded>>
    /\ UNCHANGED <<agent_response, kubectl_result, execution_log, spawned,
                   exit_code>>

\* task creation with the assignment `turn.task_response = task_response`
\* missing
CreateTaskReturns_NotRecorded ==
    /\ pc = "persist_task"
    /\ calls' = Append(calls,
                   Call("create_task", TaskArgs(agent_response.val), "ok"))
    /\ pc' = "returned"
    /\ UNCHANGED <<unit, history_file, current_session, appended, faulted, started,
                   user_input, savers, loaded>>
    /\ UNCHANGED <<turn, agent_response, kubectl_result, execution_log,
                   spawned, raised, exit_code>>

\* task_response = await create_task(...); turn.task_response = task_response;
\* display_execution_result; return turn
CreateTaskReturns ==
    /\ pc = "persist_task"
    /\ LET args == TaskArgs(agent_response.val) IN
       /\ calls' = Append(calls, Call("create_task", args, "ok"))
       /\ turn' = [turn EXCEPT !.task_response =
                      Some([id |-> "task-1", title |-> args.title,
                            description |-> args.description])]
    /\ pc' = "returned"
    /\ UNCHANGED <<unit, history_file, current_session, appended, faulted, started,
                   user_input, savers, loaded>>
    /\ UNCHANGED <<agent_response, kubectl_result, execution_log, spawned,
                   raised, exit_code>>

CreateTaskRaises(e) ==
    /\ pc = "persist_task"
    /\ calls' = Append(calls,
                   Call("create_task", TaskArgs(agent_response.val), e.class))
    /\ Raise(turn, e)
    /\ UNCHANGED <<unit, history_file, current_session, appended, faulted, started,
                   user_input, savers, loaded>>
    /\ UNCHANGED <<agent_response, kubectl_result, execution_log, spawned,
                   exit_code>>

----------------------------------------------------------------------------
\* cli.py single_shot_mode

\* the exit status single_shot_mode gives for the returned turn:
\* `if turn.error: Exit(1)`, else a normal return or Exit(0)
ExitStatus(t) == IF Truthy(t.error) THEN 1 ELSE 0

SingleShotExit ==
    /\ pc = "returned"
    /\ exit_code' = Some(ExitStatus(turn))
    /\ pc' = "exited"
    /\ UNCHANGED <<unit, history_file, current_session, appended, faulted, started,
                   user_input, savers, loaded>>
    /\ UNCHANGED <<turn, agent_response, kubectl_result, execution_log, calls,
                   spawned, raised>>

----------------------------------------------------------------------------

Init ==
    /\ pc = "start"
    /\ turn = None
    /\ agent_response = None
    /\ kubectl_result = None
    /\ execution_log = <<>>
    /\ calls = <<>>
    /\ spawned = {}
    /\ raised = <<>>
    /\ exit_code = None
    /\ unit = None
    /\ history_file = None
    /\ current_session = None
    /\ appended = <<>>
    /\ faulted = FALSE
    /\ started = 0
    /\ user_input = None
    /\ savers = <<>>
    /\ loaded = None

Next ==
    \/ \E prompt \in Prompts : ProcessUserRequest(prompt)
    \/ \E resp \in AgentResponses : ExecuteCommandReturns(resp)
    \/ \E e \in execute_command_raises : ExecuteCommandRaises(e)
    \/ \E answer \in BOOLEAN : ConfirmExecution(answer)
    \/ \E e \in confirm_execution_raises : ConfirmExecutionRaises(e)
    \/ ValidateCommand
    \/ \E o \in SubprocessOutcomes : RunKubectl(o)
    \/ CreateNoteReturns
    \/ \E e \in create_note_raises : CreateNoteRaises(e)
    \/ CreateTaskReturns
    \/ \E e \in create_task_raises : CreateTaskRaises(e)
    \/ SingleShotExit

Spec == Init /\ [][Next]_vars

----------------------------------------------------------------------------
\* The functions of executor.py applied on their own: a command text and a
\* timeout are drawn, then validate_kubectl_command or run_kubectl is applied.

Pad(n) == [i \in 1..n |-> "a"]

Leads == {<<>>, <<" ">>, <<"\n", "\t", " ">>}

Heads ==
    {SubSeq(KubectlPrefix, 1, 7), <<"K", "U", "B", "E", "C", "T", "L">>,
     SubSeq(KubectlPrefix, 1, 6), <<"r", "m">>}

Seps == {<<>>, <<" ">>, <<" ", " ">>, <<"\t">>, <<"\n">>}

\* filler lengths that put the text on both sides of the preview length
PadLens == {0, 1} \cup ((PreviewLen - 12)..(PreviewLen + 2))

Trails == {<<>>, <<" ", "\n">>}

Texts ==
    {l \o h \o s \o Pad(n) \o t :
        l \in Leads, h \in Heads, s \in Seps, n \in PadLens, t \in Trails}

Timeouts == {DefaultTimeout, 5}

\* nothing of a turn, and nothing of the history, is in progress
PipelineIdle ==
    /\ turn = None
    /\ agent_response = None
    /\ kubectl_result = None
    /\ execution_log = <<>>
    /\ calls = <<>>
    /\ spawned = {}
    /\ raised = <<>>
    /\ exit_code = None

HistoryIdle ==
    /\ history_file = None
    /\ current_session = None
    /\ appended = <<>>
    /\ faulted = FALSE
    /\ started = 0
    /\ user_input = None
    /\ savers = <<>>
    /\ loaded = None

InitUnits ==
    /\ pc = "unit"
    /\ PipelineIdle
    /\ HistoryIdle
    /\ unit \in {Some([op |-> "input", command |-> c, timeout |-> t])
                   : c \in Texts, t \in Timeouts}

\* validate_kubectl_command(command)
Validate ==
    /\ pc = "unit"
    /\ unit.val.op = "input"
    /\ unit' = Some([op |-> "validate", command |-> unit.val.command,
                     timeout |-> unit.val.timeout,
                     out |-> validate_kubectl_command(unit.val.command)])
    /\ UNCHANGED <<pc, turn, agent_response, kubectl_result, execution_log,
                   calls, spawned, raised, exit_code>>
    /\ UNCHANGED <<history_file, current_session, appended, faulted, started,
                   user_input, savers, loaded>>

\* run_kubectl(command, timeout) under a condition of the machine
Execute(cond) ==
    /\ pc = "unit"
    /\ unit.val.op = "input"
    /\ unit' = Some([op |-> "run_kubectl", command |-> unit.val.command,
                     timeout |-> unit.val.timeout, cond |-> cond,
                     out |-> run_kubectl(unit.val.command, unit.val.timeout,
                                         subprocess_run(cond))])
    /\ UNCHANGED <<pc, turn, agent_response, kubectl_result, execution_log,
                   calls, spawned, raised, exit_code>>
    /\ UNCHANGED <<history_file, current_session, appended, faulted, started,
                   user_input, savers, loaded>>

NextUnits ==
    \/ Validate
    \/ \E cond \in ShellConditions : Execute(cond)

SpecUnits == InitUnits /\ [][NextUnits]_vars

----------------------------------------------------------------------------
\* Properties of the turn pipeline

Called(fn) == \E i \in DOMAIN calls : calls[i].fn = fn

CalledWith(fn, out) ==
    \E i \in DOMAIN calls : calls[i].fn = fn /\ calls[i].out = out

\* process_user_request has returned its turn
Returned == pc \in {"returned", "exited"}

\* process_user_request is over: it returned or the exception left it
Over == pc \in {"returned", "exited", "propagated"}

Interrupted ==
    \E i \in DOMAIN raised : raised[i] \in {"KeyboardInterrupt", "CancelledError"}

KubectlProgram == <<"k", "u", "b", "e", "c", "t", "l">>

\* the proposed command is present and does not begin, once trimmed, with
\* 'kubectl '
RejectedCommandProposed ==
    /\ agent_response.some
    /\ agent_response.val.success
    /\ Truthy(agent_response.val.command)
    /\ ~StartsWith(Strip(agent_response.val.command.val), KubectlPrefix)

\* C1 (amended): run_kubectl is invoked only after the reasoning response
\* reported success, the user confirmed and validate_kubectl_command accepted
\* that command, so every command string handed to the executor begins, after
\* trimming whitespace, with 'kubectl '.
C1_ExecutorOnlyAfterGuard ==
    \A i \in DOMAIN calls :
        calls[i].fn = "run_kubectl" =>
            /\ agent_response.some
            /\ agent_response.val.success
            /\ \E j \in 1..(i - 1) :
                   /\ calls[j].fn = "confirm_execution"
                   /\ calls[j].out = "yes"
            /\ \E k \in 1..(i - 1) :
                   /\ calls[k].fn = "validate_kubectl_command"
                   /\ calls[k].out = "ok"
                   /\ calls[k].arg = calls[i].arg
            /\ StartsWith(Strip(calls[i].arg), KubectlPrefix)

\* C1 witness: the executor ran a guarded command line whose shell also
\* started a program other than kubectl
C1_Witness ==
    /\ CalledWith("run_kubectl", "ok")
    /\ KubectlProgram \in spawned
    /\ spawned # {KubectlProgram}

\* C1 (as claimed): the executor runs only guarded, confirmed commands and no
\* program of another command family than kubectl is ever spawned.
C1_NoOtherCommandFamily ==
    /\ C1_ExecutorOnlyAfterGuard
    /\ spawned \subseteq {KubectlProgram}

\* C2: when the proposed command is rejected by the guard and the user has
\* confirmed, no subprocess is spawned, no note or task creation is attempted,
\* and the returned turn's error is the guard's rejection message.
C2_GuardRejectionStopsTurn ==
    (RejectedCommandProposed /\ CalledWith("confirm_execution", "yes")) =>
        /\ ~Called("run_kubectl")
        /\ spawned = {}
        /\ ~Called("create_note")
        /\ ~Called("create_task")
        /\ Returned =>
               turn.error =
                   Some(InvalidCommandMessage(agent_response.val.command.val))

\* C2 witness: a confirmed turn returned with a rejected command
C2_Witness ==
    /\ RejectedCommandProposed
    /\ CalledWith("confirm_execution", "yes")
    /\ CalledWith("validate_kubectl_command", "InvalidCommandError")
    /\ pc = "returned"

\* C3: when the user declines the confirmation prompt the turn is returned
\* with executed = false and no error, and neither the guard, the executor,
\* note creation nor task creation is called for that turn.
C3_DeclinedTurn ==
    CalledWith("confirm_execution", "no") =>
        /\ Returned
        /\ turn.executed = FALSE
        /\ turn.error = None
        /\ ~Called("validate_kubectl_command")
        /\ ~Called("run_kubectl")
        /\ spawned = {}
        /\ ~Called("create_note")
        /\ ~Called("create_task")

\* C3 witness: a turn returned after the user declined
C3_Witness == CalledWith("confirm_execution", "no") /\ pc = "returned"

\* C4 (as claimed): for every reasoning response with success = false the
\* returned turn has error present and equal to the response's message,
\* executed = false, and no prompt, execution or persistence call happened.
C4_FailureFlagSetsError ==
    (Returned /\ agent_response.some /\ ~agent_response.val.success) =>
        /\ turn.error.some
        /\ turn.error = agent_response.val.error_message
        /\ turn.executed = FALSE
        /\ ~Called("confirm_execution")
        /\ ~Called("run_kubectl")
        /\ ~Called("create_note")
        /\ ~Called("create_task")

\* C5: when the reasoning call fails at the transport or service level the
\* turn is returned with error set to a message classified as a reasoning
\* service failure, executed = false, and no confirmation, execution, note or
\* task call happened.
C5_ReasoningFailureClassified ==
    CalledWith("execute_command", "AgentServiceError") =>
        /\ Returned
        /\ turn.error.some
        /\ Head(turn.error.val) = "Agent service error: "
        /\ turn.executed = FALSE
        /\ ~Called("confirm_execution")
        /\ ~Called("validate_kubectl_command")
        /\ ~Called("run_kubectl")
        /\ ~Called("create_note")
        /\ ~Called("create_task")

\* C5 witness: the turn returned after execute_command raised AgentServiceError
C5_Witness ==
    CalledWith("execute_command", "AgentServiceError") /\ pc = "returned"

ErrorKinds ==
    {"Agent service error: ", "Note service error: ", "Task service error: ",
     NotKubectlMsg, "user interrupt", "unexpected error: "}

\* C6 (as claimed): whatever failure is raised at whatever stage,
\* process_user_request returns a turn instead of propagating, and that turn
\* carries an error message of one of the kinds.
C6_EveryFailureYieldsTurnError ==
    raised # <<>> =>
        /\ Returned
        /\ turn.error.some
        /\ turn.error.val # <<>>
        /\ Head(turn.error.val) \in ErrorKinds

\* C7 (as claimed): in single-shot mode the exit status is non-zero if and
\* only if the returned turn's error is present.
C7_ExitStatusFromErrorPresence ==
    pc = "exited" => ((exit_code.val # 0) <=> turn.error.some)

\* C8 (as claimed): once the executor has returned its result for a confirmed
\* turn, both note creation and task creation are attempted, whatever the
\* result, and neither is issued before the executor returned (turns ended by
\* a user interrupt left aside).
C8_PersistenceAfterExecution ==
    /\ \A i \in DOMAIN calls :
           (calls[i].fn \in {"create_note", "create_task"}
            /\ Called("run_kubectl")) =>
               \E j \in 1..(i - 1) : calls[j].fn = "run_kubectl"
    /\ (Over /\ kubectl_result.some /\ ~Interrupted) =>
           (Called("create_note") /\ Called("create_task"))

\* C9 (as claimed): a failure of note creation does not prevent task creation
\* from being attempted, and a failure of task creation does not prevent note
\* creation from being attempted.
C9_IndependentPersistence ==
    /\ (Over /\ CalledWith("create_note", "NoteServiceError")) =>
           Called("create_task")
    /\ (Over /\ CalledWith("create_task", "TaskServiceError")) =>
           Called("create_note")

\* C10 (as claimed): when exactly one of note creation and task creation
\* fails (the note is created, the task service fails) the returned turn's
\* error is not written.
C10_PartialSuccessNoError ==
    (Returned /\ CalledWith("create_note", "ok")
     /\ CalledWith("create_task", "TaskServiceError")) =>
        turn.error = None

\* the messages a TaskServiceError of create_task can carry
TaskServiceMessages == {ServiceErrorMessage("Task", f) : f \in TransportFailures}

\* C11: when the command was executed (whatever its exit status), note
\* creation succeeded and task creation failed with a service error, the
\* returned turn has the note present, the task absent, and the task service's
\* failure message on it.
C11_NoteKeptTaskFailureRetained ==
    (Returned /\ kubectl_result.some /\ CalledWith("create_note", "ok")
     /\ CalledWith("create_task", "TaskServiceError")) =>
        /\ turn.note_response.some
        /\ ~turn.task_response.some
        /\ turn.error.some
        /\ Head(turn.error.val) = "Task service error: "
        /\ Tail(turn.error.val) \in TaskServiceMessages

\* C11 witness: a command that exited with a non-zero status, the note
\* created, the task service failing
C11_Witness ==
    /\ pc = "returned"
    /\ kubectl_result.some
    /\ kubectl_result.val.return_code = 2
    /\ CalledWith("create_note", "ok")
    /\ CalledWith("create_task", "TaskServiceError")

\* the turn went through reasoning, confirmation, guard, an execution with
\* exit status 0, and both creations without a failure
HappyPath ==
    /\ Returned
    /\ CalledWith("confirm_execution", "yes")
    /\ CalledWith("validate_kubectl_command", "ok")
    /\ CalledWith("run_kubectl", "ok")
    /\ kubectl_result.some
    /\ kubectl_result.val.return_code = 0
    /\ CalledWith("create_note", "ok")
    /\ CalledWith("create_task", "ok")

\* C12: reasoning succeeds with a 'kubectl ...' command, the user confirms,
\* the command exits 0 and both persistence services succeed: the returned
\* turn has executed = true, no error, and both the note and the task.
C12_SuccessfulTurn ==
    HappyPath =>
        /\ turn.executed = TRUE
        /\ turn.error = None
        /\ turn.note_response.some
        /\ turn.task_response.some
        /\ kubectl_result.val.success

\* C12 witness: a turn returned along the whole pipeline
C12_Witness == HappyPath /\ pc = "returned"

\* C13 (as claimed): in every returned turn executed = false implies that no
\* side effect (note, task) is present on the turn.
C13_NotExecutedNoSideEffects ==
    (Returned /\ turn.executed = FALSE) =>
        /\ ~turn.note_response.some
        /\ ~turn.task_response.some

\* the fields of a turn that could hold the ExecutionResult
ExecutionResultFields == {"execution_result", "kubectl_result"}

\* C14 (as claimed): a returned turn whose command was run carries the
\* ExecutionResult of that run (stated for the turns that met no failure).
C14_ExecutionResultOnTurn ==
    (Returned /\ CalledWith("run_kubectl", "ok") /\ raised = <<>>) =>
        \E f \in DOMAIN turn :
            /\ f \in ExecutionResultFields
            /\ turn[f] = kubectl_result

----------------------------------------------------------------------------
\* history.py: the sessions of successive runs of the interactive mode, each
\* constructing a HistoryManager and saving its session when it shuts down.
\*   history_file     the file ~/.aklp_history.json: None when it does not
\*                    exist, else its content: a JSON document {"sessions":
\*                    [...]}, another JSON document, or text that json.load
\*                    cannot parse
\*   current_session  the SessionHistory of the running process, None between
\*                    runs
\*   started          how many managers have been constructed; it stands for
\*                    uuid4() and datetime.now(), fresh for every manager
\*   appended         the sessions whose save wrote the file completely
\*   faulted          whether a file operation of a save has failed so far
\*   loaded           the load_last_session just made: the file it read and
\*                    what it gave its caller; None once the manager has
\*                    done something else

\* runs of the interactive mode explored
MaxSessions == 105

\* max_sessions of save_session
max_sessions == 100

\* datetime in JSON mode: the ISO 8601 text of the instant
IsoFormat(t) == ToString(t)

\* pydantic reading a datetime back from its ISO 8601 text
ParseIso(text) == CHOOSE t \in 0..(MaxSessions + 1) : IsoFormat(t) = text

\* an Optional field in JSON mode: null or the value
JsonNull == [json |-> "null"]

DumpOptional(o) == IF o.some THEN [json |-> "value", val |-> o.val] ELSE JsonNull

\* pydantic reading an Optional field back
LoadOptional(j) == IF j.json = "null" THEN None ELSE Some(j.val)

\* SessionHistory(session_id=str(uuid.uuid4()), started_at=datetime.now())
SessionHistory(n) == [session_id |-> n, started_at |-> n, turns |-> <<>>]

\* ConversationTurn.model_dump(mode="json")
DumpTurn(t) ==
    [timestamp |-> IsoFormat(t.timestamp),
     user_prompt |-> t.user_prompt,
     executed |-> t.executed,
     note_response |-> DumpOptional(t.note_response),
     task_response |-> DumpOptional(t.task_response),
     error |-> DumpOptional(t.error),
     llm_elapsed_time |-> DumpOptional(t.llm_elapsed_time)]

\* ConversationTurn.model_validate of a dumped turn
ValidateTurn(d) ==
    [timestamp |-> ParseIso(d.timestamp),
     user_prompt |-> d.user_prompt,
     executed |-> d.executed,
     note_response |-> LoadOptional(d.note_response),
     task_response |-> LoadOptional(d.task_response),
     error |-> LoadOptional(d.error),
     llm_elapsed_time |-> LoadOptional(d.llm_elapsed_time)]

\* the dump leaving the turns out
ModelDump_NoTurns(session) ==
    [session_id |-> session.session_id,
     started_at |-> IsoFormat(session.started_at),
     turns |-> <<>>]

\* session.model_dump(mode="json")
ModelDump(session) ==
    [session_id |-> session.session_id,
     started_at |-> IsoFormat(session.started_at),
     turns |-> [i \in DOMAIN session.turns |-> DumpTurn(session.turns[i])]]

\* whether SessionHistory.model_validate accepts the entry: session_id is the
\* required field
ValidEntry(d) == "session_id" \in DOMAIN d

\* SessionHistory.model_validate of an entry it accepts
ModelValidate(d) ==
    [session_id |-> d.session_id,
     started_at |-> ParseIso(d.started_at),
     turns |-> [i \in DOMAIN d.turns |-> ValidateTurn(d.turns[i])]]

\* The contents a file can have
JsonFile(sessions) == Some([kind |-> "json", sessions |-> sessions])

\* text json.load cannot parse, an empty or truncated file included
UnparseableFile == Some([kind |-> "unparseable"])

\* a JSON document whose top level is not a mapping, such as []
NotMappingFile == Some([kind |-> "not_mapping"])

\* a JSON mapping without the key "sessions", such as {}
NoSessionsKeyFile == Some([kind |-> "no_sessions_key"])

\* a JSON mapping whose "sessions" is not a list, such as {"sessions": 7}
SessionsNotListFile == Some([kind |-> "sessions_not_list"])

\* `except Exception` catches the class
CaughtAsException(class) == class \notin BaseOnlyClasses

\* How the file operations of one save_session go: all succeed; opening or
\* reading the existing file fails; opening the file for writing fails; or
\* the write fails after open(..., "w") has truncated the file.
SaveOutcomes == {"ok", "read_error", "write_refused", "write_cut"}

\* the cap keeping the first max_sessions entries instead of the last
Retain_Oldest(all_sessions) ==
    IF Len(all_sessions) > max_sessions
    THEN SubSeq(all_sessions, 1, max_sessions)
    ELSE all_sessions

\* if len(all_sessions) > max_sessions: all_sessions[-max_sessions:]
Retain(all_sessions) ==
    IF Len(all_sessions) > max_sessions
    THEN SubSeq(all_sessions, Len(all_sessions) - max_sessions + 1,
                Len(all_sessions))
    ELSE all_sessions

\* the reading step starting from an empty list when the file cannot be used
ReadSessions_ResetOnUnparseable(file, o) ==
    IF ~file.some THEN [exc |-> None, is_list |-> TRUE, sessions |-> <<>>]
    ELSE IF o = "read_error" THEN [exc |-> Some("OSError")]
    ELSE IF file.val.kind \in {"unparseable", "not_mapping", "no_sessions_key"}
    THEN [exc |-> None, is_list |-> TRUE, sessions |-> <<>>]
    ELSE IF file.val.kind = "sessions_not_list"
    THEN [exc |-> None, is_list |-> FALSE]
    ELSE [exc |-> None, is_list |-> TRUE, sessions |-> file.val.sessions]

\* the reading step of save_session: all_sessions = [] when the file does not
\* exist, else json.load(f) and data.get("sessions", []); the list, or the
\* class of the exception
ReadSessions(file, o) ==
    IF ~file.some THEN [exc |-> None, is_list |-> TRUE, sessions |-> <<>>]
    ELSE IF o = "read_error" THEN [exc |-> Some("OSError")]
    ELSE IF file.val.kind = "unparseable"
    THEN [exc |-> Some("JSONDecodeError")]
    ELSE IF file.val.kind = "not_mapping"
    THEN [exc |-> Some("AttributeError")]
    ELSE IF file.val.kind = "no_sessions_key"
    THEN [exc |-> None, is_list |-> TRUE, sessions |-> <<>>]
    ELSE IF file.val.kind = "sessions_not_list"
    THEN [exc |-> None, is_list |-> FALSE]
    ELSE [exc |-> None, is_list |-> TRUE, sessions |-> file.val.sessions]

\* the writing step of save_session for what was read: append the dumped
\* session (a value that is not a list has no append), cap, open(..., "w")
\* and json.dump; the file afterwards and the class of the exception
WriteSessions(file, r, session, o) ==
    IF ~r.is_list
    THEN [file |-> file, exc |-> Some("AttributeError")]
    ELSE IF o = "write_refused"
    THEN [file |-> file, exc |-> Some("OSError")]
    ELSE IF o = "write_cut"
    THEN [file |-> UnparseableFile, exc |-> Some("OSError")]
    ELSE [file |-> JsonFile(Retain(Append(r.sessions, ModelDump(session)))),
          exc |-> None]

\* save_session with its handler being `except OSError`
save_session_ExceptOSError(file, session, o) ==
    LET r == ReadSessions(file, o)
        w == IF r.exc.some THEN [file |-> file, exc |-> r.exc]
             ELSE WriteSessions(file, r, session, o)
    IN  [file |-> w.file,
         wrote |-> ~w.exc.some,
         raises |-> w.exc.some /\ w.exc.val # "OSError"]

\* save_session: the file afterwards, whether the session was written, and
\* whether an exception leaves it (`except Exception: pass`)
save_session(file, session, o) ==
    LET r == ReadSessions(file, o)
        w == IF r.exc.some THEN [file |-> file, exc |-> r.exc]
             ELSE WriteSessions(file, r, session, o)
    IN  [file |-> w.file,
         wrote |-> ~w.exc.some,
         raises |-> w.exc.some /\ ~CaughtAsException(w.exc.val)]

\* the body of load_last_session: the session, None, or the class of the
\* exception
LoadAttempt(file, o) ==
    IF ~file.some THEN [exc |-> None, value |-> None]
    ELSE IF o = "read_error" THEN [exc |-> Some("OSError")]
    ELSE IF file.val.kind = "unparseable"
    THEN [exc |-> Some("JSONDecodeError")]
    ELSE IF file.val.kind = "not_mapping"
    THEN [exc |-> Some("AttributeError")]
    ELSE IF file.val.kind = "no_sessions_key"
    THEN [exc |-> None, value |-> None]
    ELSE IF file.val.kind = "sessions_not_list"
    THEN [exc |-> Some("TypeError")]
    ELSE IF file.val.sessions = <<>> THEN [exc |-> None, value |-> None]
    ELSE LET last == file.val.sessions[Len(file.val.sessions)] IN
         IF ValidEntry(last)
         THEN [exc |-> None, value |-> Some(ModelValidate(last))]
         ELSE [exc |-> Some("ValidationError")]

\* load_last_session returning the first session of the store
load_last_session_First(file, o) ==
    LET r == LoadAttempt(file, o) IN
    IF r.exc.some
    THEN [returns |-> CaughtAsException(r.exc.val), value |-> None]
    ELSE IF r.value.some /\ ValidEntry(file.val.sessions[1])
    THEN [returns |-> TRUE,
          value |-> Some(ModelValidate(file.val.sessions[1]))]
    ELSE [returns |-> TRUE, value |-> r.value]

\* load_last_session: `except Exception: return None`
load_last_session(file, o) ==
    LET r == LoadAttempt(file, o) IN
    IF r.exc.some
    THEN [returns |-> CaughtAsException(r.exc.val), value |-> None]
    ELSE [returns |-> TRUE, value |-> r.value]

\* history_manager.add_turn(turn)
add_turn(session, t) == [session EXCEPT !.turns = Append(@, t)]

\* history_manager.clear_history()
clear_history(session) == [session EXCEPT !.turns = <<>>]

\* runs explored where sessions carry turns
MaxRuns == 2

RunLimit == IF pc = "history" THEN MaxSessions ELSE MaxRuns

\* HistoryManager.__init__ at the start of interactive_mode
HistoryManagerInit ==
    /\ pc \in {"history", "ledger"}
    /\ current_session = None
    /\ started < RunLimit
    /\ started' = started + 1
    /\ current_session' = Some(SessionHistory(started + 1))
    /\ loaded' = None
    /\ UNCHANGED <<pc, turn, agent_response, kubectl_result, execution_log,
                   calls, spawned, raised, exit_code>>
    /\ UNCHANGED <<unit, history_file, appended, faulted, user_input, savers>>

\* HistoryManager.save_session in the finally clause of interactive_mode,
\* after which the process ends.  Every Exception is swallowed, so a failure
\* leaves the file as the failed operation left it.
SaveSession(o) ==
    /\ pc \in {"history", "ledger"}
    /\ current_session.some
    /\ o # "ok" => ~faulted
    /\ o = "read_error" => history_file.some
    /\ LET r == save_session(history_file, current_session.val, o) IN
       /\ history_file' = r.file
       /\ appended' = IF r.wrote THEN Append(appended, current_session.val)
                      ELSE appended
    /\ faulted' = (faulted \/ o # "ok")
    /\ current_session' = None
    /\ loaded' = None
    /\ UNCHANGED <<pc, turn, agent_response, kubectl_result, execution_log,
                   calls, spawned, raised, exit_code>>
    /\ UNCHANGED <<unit, started, user_input, savers>>

InitHistory ==
    /\ pc = "history"
    /\ PipelineIdle
    /\ unit = None
    /\ HistoryIdle

NextHistory ==
    \/ HistoryManagerInit
    \/ \E o \in SaveOutcomes : SaveSession(o)

SpecHistory == InitHistory /\ [][NextHistory]_vars

----------------------------------------------------------------------------
\* history.py with sessions that carry turns, files of every kind, and
\* load_last_session

\* turns a session holds at most
MaxTurns == 2

\* turns as process_user_request returns them
LedgerTurns ==
    {[ConversationTurn(<<"list pods">>) EXCEPT
         !.error = Some(<<"user interrupt">>)],
     [ConversationTurn(<<"list pods">>) EXCEPT
         !.executed = TRUE,
         !.llm_elapsed_time = Some(0),
         !.note_response = Some([id |-> "note-1", title |-> <<"List pods">>,
                                 content |-> <<"## command\n">>]),
         !.task_response = Some([id |-> "task-1", title |-> <<"List pods">>,
                                 description |-> <<"command: ">>])]}

\* an entry of "sessions" that is not a session
MalformedEntry == [note |-> <<"x">>]

\* a session written by an earlier version of the store
OldSession == SessionHistory(0)

LedgerFiles ==
    {None, JsonFile(<<>>), JsonFile(<<ModelDump(OldSession)>>),
     JsonFile(<<MalformedEntry>>), UnparseableFile, NotMappingFile,
     NoSessionsKeyFile, SessionsNotListFile}

InitLedger ==
    /\ pc = "ledger"
    /\ PipelineIdle
    /\ unit = None
    /\ history_file \in LedgerFiles
    /\ current_session = None
    /\ appended = <<>>
    /\ faulted = FALSE
    /\ started = 0
    /\ user_input = None
    /\ savers = <<>>
    /\ loaded = None

\* history_manager.add_turn(turn)
AddTurn(t) ==
    /\ pc = "ledger"
    /\ current_session.some
    /\ Len(current_session.val.turns) < MaxTurns
    /\ current_session' = Some(add_turn(current_session.val, t))
    /\ loaded' = None
    /\ UNCHANGED <<pc, turn, agent_response, kubectl_result, execution_log,
                   calls, spawned, raised, exit_code>>
    /\ UNCHANGED <<unit, history_file, appended, faulted, started, user_input,
                   savers>>

\* history_manager.load_last_session(); reading the file may fail
LoadLastSession(o) ==
    /\ pc = "ledger"
    /\ current_session.some
    /\ o \in {"ok", "read_error"}
    /\ o = "read_error" => history_file.some
    /\ loaded' = Some([store |-> history_file, o |-> o,
                       out |-> load_last_session(history_file, o)])
    /\ UNCHANGED <<pc, turn, agent_response, kubectl_result, execution_log,
                   calls, spawned, raised, exit_code>>
    /\ UNCHANGED <<unit, history_file, current_session, appended, faulted,
                   started, user_input, savers>>

NextLedger ==
    \/ HistoryManagerInit
    \/ \E t \in LedgerTurns : AddTurn(t)
    \/ \E o \in SaveOutcomes : SaveSession(o)
    \/ \E o \in SaveOutcomes : LoadLastSession(o)

SpecLedger == InitLedger /\ [][NextLedger]_vars

----------------------------------------------------------------------------
\* cli.py interactive_mode: one run of the REPL.  pc is "boot" before the
\* HistoryManager is constructed, "prompt" while get_user_input_async is
\* awaited, the positions of process_user_request while a prompt is being
\* processed, "finally" when the loop has been left, and "done" or "aborted"
\* when interactive_mode is over.  calls holds the calls of the current
\* iteration of the loop, and of the shutdown once the loop has been left.

\* prompts forwarded per session at most
MaxPrompts == 1

\* str.lower() on the letters the inputs use
LowerChar(c) ==
    CASE c = "Q" -> "q" [] c = "U" -> "u" [] c = "I" -> "i" [] c = "T" -> "t"
      [] OTHER -> c

Lower(s) == [i \in DOMAIN s |-> LowerChar(s[i])]

\* str.split(): the words between runs of whitespace
RECURSIVE Word(_)
Word(s) ==
    IF s = <<>> \/ Head(s) \in Whitespace THEN <<>>
    ELSE <<Head(s)>> \o Word(Tail(s))

RECURSIVE Split(_)
Split(s) ==
    LET rest == LStrip(s) IN
    IF rest = <<>> THEN <<>>
    ELSE <<Word(rest)>> \o Split(SubSeq(rest, Len(Word(rest)) + 1, Len(rest)))

ExitCommand == <<"/", "e", "x", "i", "t">>

QuitCommand == <<"/", "q", "u", "i", "t">>

HelpCommand == <<"/", "h", "e", "l", "p">>

HistoryCommand == <<"/", "h", "i", "s", "t", "o", "r", "y">>

ClearCommand == <<"/", "c", "l", "e", "a", "r">>

NotesPrefix == <<"/", "n", "o", "t", "e", "s">>

NotePrefix == <<"/", "n", "o", "t", "e", " ">>

TasksPrefix == <<"/", "t", "a", "s", "k", "s">>

TaskPrefix == <<"/", "t", "a", "s", "k", " ">>

FilesPrefix == <<"/", "f", "i", "l", "e", "s">>

FilePrefix == <<"/", "f", "i", "l", "e", " ">>

BatchesPrefix == <<"/", "b", "a", "t", "c", "h", "e", "s">>

BatchPrefix == <<"/", "b", "a", "t", "c", "h", " ">>

UsagePrefix == <<"/", "u", "s", "a", "g", "e">>

\* the branch of the loop body that takes the stripped input, in the order
\* of the tests
Dispatch(text) ==
    LET low == Lower(text) IN
    IF text = <<>> THEN "continue"
    ELSE IF low \in {ExitCommand, QuitCommand} THEN "break"
    ELSE IF low = HelpCommand THEN "display_help"
    ELSE IF low = HistoryCommand THEN "display_history"
    ELSE IF low = ClearCommand THEN "clear_history"
    ELSE IF StartsWith(low, NotesPrefix) THEN "handle_notes_command"
    ELSE IF StartsWith(low, NotePrefix) THEN "handle_note_command"
    ELSE IF StartsWith(low, TasksPrefix) THEN "handle_tasks_command"
    ELSE IF StartsWith(low, TaskPrefix) THEN "handle_task_command"
    ELSE IF StartsWith(low, FilesPrefix) THEN "handle_files_command"
    ELSE IF StartsWith(low, FilePrefix) THEN "handle_file_command"
    ELSE IF StartsWith(low, BatchesPrefix) THEN "handle_batches_command"
    ELSE IF StartsWith(low, BatchPrefix) THEN "handle_batch_command"
    ELSE IF StartsWith(low, UsagePrefix) THEN "handle_usage_command"
    ELSE "process_user_request"

Digits == {"0", "1", "2", "3", "4", "5", "6", "7", "8", "9"}

\* int(parts[1]) succeeds
IsNumber(word) == word # <<>> /\ \A i \in DOMAIN word : word[i] \in Digits

\* UUID(parts[1]) succeeds; a well-formed id is one atom of the text
IsUuid(word) == word = <<"uuid-1">>

\* how a request to a service made by a handler can end: the handler
\* returns after displaying the result or, its except clauses having caught
\* the failure, the error of the service; or Ctrl+C arrives while the request
\* is awaited
AwaitOutcomes == {"shown", "CancelledError"}

ListHandlers ==
    {"handle_notes_command", "handle_tasks_command", "handle_files_command",
     "handle_batches_command"}

ItemHandlers ==
    {"handle_note_command", "handle_task_command", "handle_file_command",
     "handle_batch_command"}

\* the ways the branch can end for the stripped input
HandlerOutcomes(handler, text) ==
    LET parts == Split(text) IN
    IF handler = "continue" THEN {"continue"}
    ELSE IF handler \in {"display_help", "display_history"} THEN {"shown"}
    ELSE IF handler = "clear_history" THEN {"cleared"}
    ELSE IF handler \in ListHandlers
    THEN IF Len(parts) > 1 /\ ~IsNumber(parts[2]) THEN {"bad_page"}
         ELSE AwaitOutcomes
    ELSE IF handler \in ItemHandlers
    THEN IF Len(parts) < 2 THEN {"missing_id"}
         ELSE IF ~IsUuid(parts[2]) THEN {"invalid_uuid"}
         ELSE AwaitOutcomes
    ELSE AwaitOutcomes

Inputs ==
    {<<>>,
     <<"/", "e", "x", "i", "t">>,
     <<"/", "Q", "U", "I", "T">>,
     <<"/", "h", "e", "l", "p">>,
     <<"/", "h", "i", "s", "t", "o", "r", "y">>,
     <<"/", "c", "l", "e", "a", "r">>,
     <<"/", "n", "o", "t", "e", "s", " ", "2">>,
     <<"/", "n", "o", "t", "e", "s", " ", "x">>,
     <<"/", "n", "o", "t", "e", " ", "uuid-1">>,
     <<"/", "n", "o", "t", "e", " ", "x">>,
     <<"/", "n", "o", "t", "e">>,
     <<" ", "/", "n", "o", "t", "e", " ">>,
     <<"/", "t", "a", "s", "k", "s">>,
     <<"/", "t", "a", "s", "k", " ", "uuid-1">>,
     <<"/", "f", "i", "l", "e", "s">>,
     <<"/", "f", "i", "l", "e", " ", "uuid-1">>,
     <<"/", "b", "a", "t", "c", "h", "e", "s">>,
     <<"/", "b", "a", "t", "c", "h", " ", "uuid-1">>,
     <<"/", "u", "s", "a", "g", "e">>,
     <<"l", "i", "s", "t", " ", "p", "o", "d", "s">>}

\* the stores a run of the interactive mode can find
InteractiveFiles == {None, JsonFile(<<ModelDump(OldSession)>>), UnparseableFile}

\* the answers of the reasoning service explored in the interactive mode
InteractiveResponses ==
    {[success |-> FALSE, command |-> None, reason |-> None, title |-> None,
      error_message |-> Some(<<"ambiguous request">>)],
     [success |-> TRUE,
      command |-> Some(<<"k","u","b","e","c","t","l"," ","g","e","t">>),
      reason |-> Some(<<"shows all pods">>), title |-> Some(<<"List pods">>),
      error_message |-> None]}

\* and the failures of the services
InteractiveFailures(service) ==
    {Exc(service \o "ServiceError", ServiceErrorMessage(service, "timeout"))}

\* Ctrl+C while the reasoning call is awaited
InteractiveInterrupts ==
    {Exc("CancelledError", <<>>), Exc("KeyboardInterrupt", <<>>)}

InteractiveOutcomes ==
    {[kind |-> "completed", returncode |-> 0, stdout |-> <<"NAME ...">>,
      stderr |-> <<>>],
     [kind |-> "interrupt"]}

InitInteractive ==
    /\ pc = "boot"
    /\ PipelineIdle
    /\ unit = None
    /\ history_file \in InteractiveFiles
    /\ current_session = None
    /\ appended = <<>>
    /\ faulted = FALSE
    /\ started = 0
    /\ user_input = None
    /\ savers = <<>>
    /\ loaded = None

\* display_welcome_message(); history_manager = HistoryManager()
InteractiveStart ==
    /\ pc = "boot"
    /\ started' = started + 1
    /\ current_session' = Some(SessionHistory(started + 1))
    /\ pc' = "prompt"
    /\ UNCHANGED <<turn, agent_response, kubectl_result, execution_log, calls,
                   spawned, raised, exit_code>>
    /\ UNCHANGED <<unit, history_file, appended, faulted, user_input, savers,
                   loaded>>

\* One iteration of the loop that ends in `continue`, or in an exception of
\* a handler: the input is blank, a built-in command, or a lookup command.
LoopLocal(input, outcome) ==
    /\ pc = "prompt"
    /\ LET text == Strip(input)
           handler == Dispatch(text)
       IN  /\ handler \notin {"break", "process_user_request"}
           /\ outcome \in HandlerOutcomes(handler, text)
           /\ calls' = <<Call(handler, text, outcome)>>
           /\ current_session' =
                  IF handler = "clear_history"
                  THEN Some(clear_history(current_session.val))
                  ELSE current_session
    /\ IF outcome \in BaseOnlyClasses
       THEN raised' = <<outcome>> /\ pc' = "finally"
       ELSE raised' = <<>> /\ pc' = "prompt"
    /\ UNCHANGED <<turn, agent_response, kubectl_result, execution_log,
                   spawned, exit_code>>
    /\ UNCHANGED <<unit, history_file, appended, faulted, started, user_input,
                   savers, loaded>>

\* get_user_input_async returns None (end of input, or Ctrl+C at the prompt),
\* or the input is /exit or /quit: break
LoopBreak(input) ==
    /\ pc = "prompt"
    /\ input.some => Dispatch(Strip(input.val)) = "break"
    /\ calls' = <<Call("get_user_input_async", <<>>,
                       IF input.some THEN "exit" ELSE "None")>>
    /\ raised' = <<>>
    /\ pc' = "finally"
    /\ UNCHANGED <<turn, agent_response, kubectl_result, execution_log,
                   spawned, exit_code>>
    /\ UNCHANGED <<unit, history_file, current_session, appended, faulted,
                   started, user_input, savers, loaded>>

\* no branch of the loop body takes the input: it is the prompt of
\* process_user_request(user_input, history_manager)
LoopForward(input) ==
    /\ pc = "prompt"
    /\ Dispatch(Strip(input)) = "process_user_request"
    /\ Len(current_session.val.turns) < MaxPrompts
    /\ user_input' = Some(Strip(input))
    /\ calls' = <<>>
    /\ raised' = <<>>
    /\ pc' = "start"
    /\ UNCHANGED <<turn, agent_response, kubectl_result, execution_log,
                   spawned, exit_code>>
    /\ UNCHANGED <<unit, history_file, current_session, appended, faulted,
                   started, savers, loaded>>

\* history_manager.add_turn(turn) and the end of the iteration; the locals of
\* process_user_request are gone
LoopAddTurn ==
    /\ pc = "returned"
    /\ current_session' = Some(add_turn(current_session.val, turn))
    /\ calls' = <<Call("add_turn", turn.user_prompt, "ok")>>
    /\ turn' = None
    /\ agent_response' = None
    /\ kubectl_result' = None
    /\ execution_log' = <<>>
    /\ spawned' = {}
    /\ raised' = <<>>
    /\ user_input' = None
    /\ pc' = "prompt"
    /\ UNCHANGED <<unit, history_file, appended, faulted, started, savers,
                   loaded, exit_code>>

\* the exception leaving the loop body without the finally clause running
\* for it
LoopPropagate_NoFinally ==
    /\ pc = "propagated"
    /\ pc' = "aborted"
    /\ exit_code' = Some(1)
    /\ UNCHANGED <<turn, agent_response, kubectl_result, execution_log, calls,
                   spawned, raised>>
    /\ UNCHANGED <<unit, history_file, current_session, appended, faulted,
                   started, user_input, savers, loaded>>

\* an exception leaves process_user_request: no turn is appended, the loop is
\* left through `except KeyboardInterrupt` or with the exception pending, and
\* the finally clause is entered
LoopPropagate ==
    /\ pc = "propagated"
    /\ pc' = "finally"
    /\ UNCHANGED <<turn, agent_response, kubectl_result, execution_log, calls,
                   spawned, raised, exit_code>>
    /\ UNCHANGED <<unit, history_file, current_session, appended, faulted,
                   started, user_input, savers, loaded>>

\* the exception with which the loop was left and that `except
\* KeyboardInterrupt` did not catch
Pending == raised # <<>> /\ raised[Len(raised)] # "KeyboardInterrupt"

\* finally: history_manager.save_session(); display_goodbye_message().  The
\* run ends with status 0 unless an exception is pending.
Shutdown(o) ==
    /\ pc = "finally"
    /\ o # "ok" => ~faulted
    /\ o = "read_error" => history_file.some
    /\ LET r == save_session(history_file, current_session.val, o) IN
       /\ history_file' = r.file
       /\ appended' = IF r.wrote THEN Append(appended, current_session.val)
                      ELSE appended
       /\ IF r.raises
          THEN /\ calls' = Append(calls, Call("save_session", o, "raises"))
               /\ pc' = "aborted"
               /\ exit_code' = Some(1)
          ELSE /\ calls' = calls \o
                     <<Call("save_session", o,
                            IF r.wrote THEN "written" ELSE "swallowed"),
                       Call("display_goodbye_message", o, "ok")>>
               /\ pc' = "done"
               /\ exit_code' = Some(IF Pending THEN 1 ELSE 0)
    /\ faulted' = (faulted \/ o # "ok")
    /\ UNCHANGED <<turn, agent_response, kubectl_result, execution_log,
                   spawned, raised>>
    /\ UNCHANGED <<unit, current_session, started, user_input, savers, loaded>>

\* turn = await process_user_request(user_input, history_manager)
LoopProcessUserRequest == user_input.some /\ ProcessUserRequest(user_input.val)

NextInteractive ==
    \/ InteractiveStart
    \/ \E input \in Inputs :
          \E outcome \in {"continue", "cleared", "bad_page", "missing_id",
                          "invalid_uuid"} \cup AwaitOutcomes :
              LoopLocal(input, outcome)
    \/ \E input \in {None} \cup {Some(i) : i \in Inputs} : LoopBreak(input)
    \/ \E input \in Inputs : LoopForward(input)
    \/ LoopProcessUserRequest
    \/ \E resp \in InteractiveResponses : ExecuteCommandReturns(resp)
    \/ \E e \in InteractiveFailures("Agent") \cup InteractiveInterrupts :
          ExecuteCommandRaises(e)
    \/ \E answer \in BOOLEAN : ConfirmExecution(answer)
    \/ \E e \in confirm_execution_raises : ConfirmExecutionRaises(e)
    \/ ValidateCommand
    \/ \E o \in InteractiveOutcomes : RunKubectl(o)
    \/ CreateNoteReturns
    \/ \E e \in InteractiveFailures("Note") : CreateNoteRaises(e)
    \/ CreateTaskReturns
    \/ \E e \in InteractiveFailures("Task") : CreateTaskRaises(e)
    \/ LoopAddTurn
    \/ LoopPropagate
    \/ \E o \in SaveOutcomes : Shutdown(o)

SpecInteractive == InitInteractive /\ [][NextInteractive]_vars

----------------------------------------------------------------------------
\* Several runs of interactive_mode, each in its own process, on one history
\* file.  savers[p] is process p: where it is (at), the session of its
\* HistoryManager, and what its save_session has read.  save_session takes no
\* lock, so the steps of the processes interleave between the reading
\* (history.py:51-56) and the writing (history.py:58-65) of the file.

\* processes sharing the file
SharedProcesses == 2

Processes == 1..SharedProcesses

SharedFiles == {None, JsonFile(<<>>), JsonFile(<<ModelDump(OldSession)>>)}

InitShared ==
    /\ pc = "shared"
    /\ PipelineIdle
    /\ unit = None
    /\ history_file \in SharedFiles
    /\ current_session = None
    /\ appended = <<>>
    /\ faulted = FALSE
    /\ started = 0
    /\ user_input = None
    /\ savers = [p \in Processes |-> [at |-> "boot", session |-> None,
                                      read |-> None]]
    /\ loaded = None

SharedUnchanged ==
    /\ UNCHANGED <<pc, turn, agent_response, kubectl_result, execution_log,
                   calls, spawned, raised, exit_code>>
    /\ UNCHANGED <<unit, current_session, faulted, started, user_input,
                   loaded>>

\* history_manager = HistoryManager() in process p
SharedStart(p) ==
    /\ pc = "shared"
    /\ savers[p].at = "boot"
    /\ savers' = [savers EXCEPT ![p] = [at |-> "loop",
                                        session |-> Some(SessionHistory(p)),
                                        read |-> None]]
    /\ UNCHANGED <<history_file, appended>>
    /\ SharedUnchanged

\* history_manager.add_turn(turn) in process p
SharedAddTurn(p, t) ==
    /\ pc = "shared"
    /\ savers[p].at = "loop"
    /\ Len(savers[p].session.val.turns) < MaxTurns
    /\ savers' = [savers EXCEPT
                     ![p].session = Some(add_turn(savers[p].session.val, t))]
    /\ UNCHANGED <<history_file, appended>>
    /\ SharedUnchanged

\* process p leaves its loop and save_session reads the file; an exception
\* ends save_session (`except Exception: pass`)
SharedRead(p, o) ==
    /\ pc = "shared"
    /\ savers[p].at = "loop"
    /\ o \in {"ok", "read_error"}
    /\ o = "read_error" => history_file.some
    /\ LET r == ReadSessions(history_file, o) IN
       savers' = [savers EXCEPT
                     ![p].at = IF r.exc.some THEN "failed" ELSE "read",
                     ![p].read = Some(r)]
    /\ UNCHANGED <<history_file, appended>>
    /\ SharedUnchanged

\* save_session of process p appends its session to what it has read, caps
\* and writes the file
SharedWrite(p, o) ==
    /\ pc = "shared"
    /\ savers[p].at = "read"
    /\ o \in {"ok", "write_refused"}
    /\ LET w == WriteSessions(history_file, savers[p].read.val,
                              savers[p].session.val, o) IN
       /\ history_file' = w.file
       /\ appended' = IF w.exc.some THEN appended
                      ELSE Append(appended, savers[p].session.val)
       /\ savers' = [savers EXCEPT
                        ![p].at = IF w.exc.some THEN "failed" ELSE "saved"]
    /\ SharedUnchanged

NextShared ==
    \/ \E p \in Processes : SharedStart(p)
    \/ \E p \in Processes : \E t \in LedgerTurns : SharedAddTurn(p, t)
    \/ \E p \in Processes : \E o \in SaveOutcomes : SharedRead(p, o)
    \/ \E p \in Processes : \E o \in SaveOutcomes : SharedWrite(p, o)

SpecShared == InitShared /\ [][NextShared]_vars

----------------------------------------------------------------------------
\* Properties of executor.py, under SpecUnits

Validated == unit.some /\ unit.val.op = "validate"

Executed == unit.some /\ unit.val.op = "run_kubectl"

\* s holds, after leading whitespace only, the word kubectl, then one space
\* character, then at least one more character that is not whitespace
KubectlThenSpace(s) ==
    \E i \in 1..Len(s) :
        /\ \A j \in 1..(i - 1) : s[j] \in Whitespace
        /\ i + 7 <= Len(s)
        /\ \A k \in 1..7 : s[i + k - 1] = KubectlProgram[k]
        /\ s[i + 7] = " "
        /\ \E m \in (i + 8)..Len(s) : s[m] \notin Whitespace

BareKubectl == KubectlProgram

UpperKubectlGet == <<"K", "U", "B", "E", "C", "T", "L", " ", "a">>

KubectlTabGet == KubectlProgram \o <<"\t", "a">>

\* C15: validate_kubectl_command succeeds exactly when the text, trimmed of
\* surrounding whitespace, begins with the word kubectl followed by a space;
\* bare kubectl, KUBECTL get and kubectl<TAB>get are rejected, and nothing
\* after the prefix is looked at.
C15_ValidateIffKubectlPrefix ==
    Validated =>
        /\ unit.val.out.returns <=> KubectlThenSpace(unit.val.command)
        /\ unit.val.command \in {BareKubectl, UpperKubectlGet, KubectlTabGet}
               => ~unit.val.out.returns

C15_Witness ==
    /\ Validated
    /\ unit.val.command = KubectlTabGet
    /\ ~unit.val.out.returns

Rejected == Validated /\ ~unit.val.out.returns

Ellipsis == <<".", ".", ".">>

\* msg is the rejection marker, then the first PreviewLen characters of text
\* (all of it when shorter), then an ellipsis exactly when text is longer
PreviewOf(msg, text) ==
    LET n == IF Len(text) > PreviewLen THEN PreviewLen ELSE Len(text)
        preview == Tail(msg)
    IN  /\ Head(msg) = NotKubectlMsg
        /\ Len(preview) = n + (IF Len(text) > PreviewLen THEN 3 ELSE 0)
        /\ \A i \in 1..n : preview[i] = text[i]
        /\ Len(text) > PreviewLen => SubSeq(preview, n + 1, n + 3) = Ellipsis

\* C16 (as stated): the rejection message previews the input: at most 50 of
\* its leading characters, with an ellipsis exactly when the input is longer
\* than 50 characters.
C16_PreviewOfInput ==
    Rejected => PreviewOf(unit.val.out.exc.msg, unit.val.command)

\* C16 (amended): the rejection message previews the input trimmed of
\* surrounding whitespace: at most 50 of its leading characters, with an
\* ellipsis exactly when the trimmed input is longer than 50 characters.
C16_PreviewOfTrimmedInput ==
    Rejected => PreviewOf(unit.val.out.exc.msg, Strip(unit.val.command))

C16_Witness ==
    /\ Rejected
    /\ Len(Strip(unit.val.command)) = PreviewLen + 1
    /\ Len(unit.val.command) > PreviewLen + 1
    /\ SubSeq(unit.val.out.exc.msg, PreviewLen + 2, PreviewLen + 4) = Ellipsis

\* C17: run_kubectl never lets an exception reach its caller: whether the
\* command exits non-zero, times out, cannot be launched or is interrupted
\* while being waited for, an ExecutionResult is returned, and it reports the
\* failure.
C17_RunKubectlNeverRaises ==
    Executed =>
        /\ unit.val.out.returns
        /\ ~(unit.val.cond.kind = "exits" /\ unit.val.cond.returncode = 0)
               => ~unit.val.out.result.success

\* C18: when the command outlives the timeout, run_kubectl returns a result
\* with success false, return code -1, empty standard output, and a standard
\* error that is the timeout message naming the timeout it was called with.
C18_TimeoutResult ==
    (Executed /\ unit.val.cond.kind = "timeout") =>
        /\ unit.val.out.returns
        /\ unit.val.out.result.success = FALSE
        /\ unit.val.out.result.return_code = -1
        /\ unit.val.out.result.stdout = <<>>
        /\ unit.val.out.result.stderr =
               <<"command timed out (", ToString(unit.val.timeout), "s)">>

C18_Witness ==
    /\ Executed
    /\ unit.val.cond.kind = "timeout"
    /\ unit.val.timeout # DefaultTimeout
    /\ unit.val.out.returns
    /\ unit.val.out.result.return_code = -1

\* the error text the operating system gives for a launch failure
UnderlyingErrorTexts ==
    {<<"/bin/sh: kubectl: not found">>, <<"/bin/sh: kubectl: Permission denied">>,
     <<"Permission denied">>}

\* C19: when the command cannot be launched (executable missing, permission
\* denied, ...), run_kubectl returns success false, return code -1 and the
\* underlying error text as standard error, never a real exit status.
C19_LaunchFailureResult ==
    (Executed /\ unit.val.cond.kind \in LaunchFailures) =>
        /\ unit.val.out.returns
        /\ unit.val.out.result.success = FALSE
        /\ unit.val.out.result.return_code = -1
        /\ unit.val.out.result.stderr \in UnderlyingErrorTexts

----------------------------------------------------------------------------
\* Properties of history.py, under SpecHistory

StoreReadable == history_file.some /\ history_file.val.kind = "json"

\* the sessions the store holds
StoredSessions == IF StoreReadable THEN history_file.val.sessions ELSE <<>>

StoredIds == [i \in DOMAIN StoredSessions |-> StoredSessions[i].session_id]

AppendedIds == [i \in DOMAIN appended |-> appended[i].session_id]

\* the last n entries of s, all of s when it has fewer
LastOf(s, n) == IF Len(s) > n THEN SubSeq(s, Len(s) - n + 1, Len(s)) ELSE s

\* C20: after any sequence of save_session calls the store holds at most 100
\* sessions; a store that can be read holds exactly the most recently
\* appended sessions, in the order they were appended, the oldest evicted
\* first, and after 105 appends to an empty store exactly 100 are stored, the
\* 5 oldest gone.
C20_StoreBoundedMostRecent ==
    pc = "history" =>
        /\ Len(StoredSessions) <= 100
        /\ ~history_file.some => appended = <<>>
        /\ StoreReadable => StoredIds = LastOf(AppendedIds, 100)
        /\ (StoreReadable /\ Len(appended) = 105) =>
               /\ Len(StoredIds) = 100
               /\ \A i \in 1..100 : StoredIds[i] = AppendedIds[i + 5]

C20_Witness ==
    /\ pc = "history"
    /\ ~faulted
    /\ Len(appended) = 105
    /\ Len(StoredIds) = 100
    /\ StoredIds[1] = 6
    /\ StoredIds[100] = 105

----------------------------------------------------------------------------
\* Properties of history.py, under SpecLedger

\* load_last_session has just read the file as it is now
FreshLoad == loaded.some /\ loaded.val.store = history_file

NothingToLoad(store) ==
    \/ ~store.some
    \/ store.val.kind # "json"
    \/ store.val.sessions = <<>>
    \/ "session_id" \notin DOMAIN store.val.sessions[Len(store.val.sessions)]

\* C23: load_last_session returns the most recently appended session; it
\* returns None, and never raises, when the store is missing, holds no
\* sessions, cannot be parsed or is malformed.
C23_LoadLastOrAbsent ==
    loaded.some =>
        LET store == loaded.val.store
            out == loaded.val.out
        IN  /\ out.returns
            /\ NothingToLoad(store) => out.value = None
            /\ (~NothingToLoad(store) /\ loaded.val.o = "ok") =>
                   /\ out.value.some
                   /\ out.value.val.session_id =
                          store.val.sessions[Len(store.val.sessions)].session_id
            /\ (FreshLoad /\ ~NothingToLoad(store) /\ loaded.val.o = "ok"
                   /\ appended # <<>>) =>
                   out.value = Some(appended[Len(appended)])

C23_Witness ==
    /\ FreshLoad
    /\ loaded.val.store.some
    /\ loaded.val.store.val.kind = "json"
    /\ Len(loaded.val.store.val.sessions) = 2
    /\ Len(appended) = 1
    /\ loaded.val.out.returns
    /\ loaded.val.out.value = Some(appended[1])

\* the file is a store from which sessions can be read
Parseable(file) == file.some /\ file.val.kind = "json"

\* C24: no step leaves the store partially written so that sessions it held
\* are lost: whatever happens to a save, the write step failing part-way
\* included, the sessions the store held before (short of the cap) can still
\* be read from it afterwards.
C24_RetainedSessionsSurvive ==
    [][(Parseable(history_file)
           /\ history_file.val.sessions # <<>>
           /\ Len(history_file.val.sessions) < max_sessions) =>
          /\ Parseable(history_file')
          /\ \A i \in DOMAIN history_file.val.sessions :
                 \E j \in DOMAIN history_file'.val.sessions :
                     history_file'.val.sessions[j] =
                         history_file.val.sessions[i]]_vars

\* the file exists but json.load cannot parse it, or its top level is not a
\* mapping
Unusable(file) == file.some /\ file.val.kind \in {"unparseable", "not_mapping"}

\* C30: while the history file exists but cannot be parsed, or is not a
\* mapping at its top level, save_session writes nothing: the file stays as
\* it is, the session is not persisted, and load_last_session on that file
\* returns None.
C30_UnusableStoreLeftAlone ==
    [][/\ Unusable(history_file) =>
             /\ history_file' = history_file
             /\ appended' = appended
       /\ (loaded'.some /\ Unusable(loaded'.val.store)) =>
             /\ loaded'.val.out.returns
             /\ loaded'.val.out.value = None]_vars

C30_Witness ==
    /\ pc = "ledger"
    /\ ~faulted
    /\ started = 2
    /\ current_session.some
    /\ Unusable(history_file)
    /\ appended = <<>>
    /\ FreshLoad
    /\ loaded.val.out.value = None

----------------------------------------------------------------------------
\* Properties of interactive_mode, under SpecInteractive

\* interactive_mode is over
RunOver == pc \in {"done", "aborted"}

SaveCalls == {i \in DOMAIN calls : calls[i].fn = "save_session"}

\* C22: a read, parse or write failure of save_session never leaves it: on
\* every way of shutting down, save_session returns, the goodbye message is
\* displayed right after it, and the exit status is what it would be without
\* the failure.
C22_SaveFailureSwallowed ==
    RunOver =>
        /\ pc = "done"
        /\ Len(calls) >= 2
        /\ calls[Len(calls) - 1].fn = "save_session"
        /\ calls[Len(calls) - 1].out \in {"written", "swallowed"}
        /\ calls[Len(calls)].fn = "display_goodbye_message"
        /\ exit_code = Some(IF Pending THEN 1 ELSE 0)

C22_Witness ==
    /\ pc = "done"
    /\ history_file = UnparseableFile
    /\ CalledWith("save_session", "swallowed")
    /\ CalledWith("display_goodbye_message", "ok")
    /\ exit_code = Some(0)

\* C25: the session is persisted exactly once per run, at shutdown and not
\* before: while the loop runs save_session has not been called and nothing
\* has been written; however the loop is left, save_session is called once,
\* and what it writes is the session with every turn appended to it.
C25_SavedOnceAtShutdown ==
    /\ pc \in {"prompt", "start", "reasoning", "confirm", "validate", "run",
               "persist_note", "persist_task", "returned", "propagated",
               "finally"} =>
          /\ SaveCalls = {}
          /\ appended = <<>>
    /\ RunOver =>
          /\ Cardinality(SaveCalls) = 1
          /\ Len(appended) <= 1
          /\ appended # <<>> => appended[1] = current_session.val

C25_Witness ==
    /\ pc = "done"
    /\ CalledWith("get_user_input_async", "None")
    /\ Len(appended) = 1
    /\ Len(appended[1].turns) = 1
    /\ Cardinality(SaveCalls) = 1

\* Ctrl+C arrived while the reasoning call or the confirmation prompt was in
\* progress
InterruptedEarly ==
    \E i \in DOMAIN calls :
        /\ calls[i].fn \in {"execute_command", "confirm_execution"}
        /\ calls[i].out \in BaseOnlyClasses

\* C26: a user interrupt during the reasoning call or the confirmation prompt
\* ends the turn without a command being run or a note or task being created,
\* and the turn comes back marked with an error and executed = FALSE.
C26_EarlyInterruptMarksTurn ==
    (InterruptedEarly /\ pc \in {"returned", "propagated"}) =>
        /\ ~Called("run_kubectl")
        /\ ~Called("create_note")
        /\ ~Called("create_task")
        /\ pc = "returned"
        /\ turn.executed = FALSE
        /\ turn.error.some

\* s is the beginning of t
IsPrefix(s, t) == Len(s) <= Len(t) /\ SubSeq(t, 1, Len(s)) = s

\* C27: the turn list of the session is append-only: no step takes a turn
\* out of it or alters one; a step changes the list only by appending the one
\* turn of the prompt just processed.
C27_TurnsAppendOnly ==
    [][(current_session.some /\ current_session'.some) =>
          /\ IsPrefix(current_session.val.turns, current_session'.val.turns)
          /\ Len(current_session'.val.turns) <=
                 Len(current_session.val.turns) + 1]_vars

\* the first words of the lookup commands
LookupWords ==
    {Word(NotesPrefix), Word(NotePrefix), Word(TasksPrefix), Word(TaskPrefix),
     Word(FilesPrefix), Word(FilePrefix), Word(BatchesPrefix),
     Word(BatchPrefix), Word(UsagePrefix)}

\* C28: an input whose first word is a lookup command is never the prompt
\* handed to process_user_request, so it neither reaches the reasoning
\* service nor becomes a turn.
C28_LookupCommandsStayLocal ==
    /\ user_input.some => Word(Lower(user_input.val)) \notin LookupWords
    /\ \A i \in DOMAIN calls :
           calls[i].fn = "execute_command" =>
               Word(Lower(calls[i].arg)) \notin LookupWords

----------------------------------------------------------------------------
\* Properties of history.py with several processes, under SpecShared

\* C29: when every process that shares the history file has finished a
\* save_session that wrote the file, the store holds the session of each of
\* them, however their reading and writing steps were interleaved.
C29_ConcurrentSavesKeepBoth ==
    (\A p \in Processes : savers[p].at = "saved") =>
        \A p \in Processes :
            \E i \in DOMAIN StoredIds : StoredIds[i] = p

============================================================================
